---- MODULE Spec2Model ----
\* A model of the voice-session orchestrator
\* (src/Services/sanctuary_core/orchestrator.py): the session driver, the listen
\* loop, the LLM tasks and the speak loop as cooperatively scheduled coroutines.
\* One action is the code a coroutine runs between two suspension points.
EXTENDS Integers, Sequences, FiniteSets, TLC

\* ---------------------------------------------------------------- bounds
MaxFrames == 2      \* audio frames the source yields before it is exhausted
MaxPartials == 1    \* partials one call of stream_partials() yields
MaxChunks == 1      \* chunks one LLM generation yields
MaxAudio == 1       \* audio frames one TTS stream yields
MaxTasks == 2       \* the recogniser falls silent once this many tasks exist
VadSilenceFrames == 2   \* EnergyVAD.silence_frames, silence_ms / frame_ms
MaxVadCalls == 6    \* calls a client makes on the EnergyVAD

\* ---------------------------------------------------------------- values
\* A text is a sequence of characters; Space is the whitespace character.
Space == " "
\* Python's None, distinct from every text (the empty text included).
None == <<"None">>
\* The texts the recogniser produces (partials and finals).
Texts == { <<"a">>, <<"a", "b">>, <<" ">> }
\* The text of a partial that has no "text" key.
Missing == <<"Missing">>
\* The speak-loop sentinel (None on the speech queue); a text item is <<task, k>>.
Sentinel == <<0, 0>>

RECURSIVE LStrip(_)
LStrip(t) == IF t # <<>> /\ Head(t) = Space THEN LStrip(Tail(t)) ELSE t

RECURSIVE RStrip(_)
RStrip(t) == IF t # <<>> /\ t[Len(t)] = Space
             THEN RStrip(SubSeq(t, 1, Len(t) - 1)) ELSE t

\* str.strip()
Strip(t) == RStrip(LStrip(t))

\* str.startswith(): p.startswith(a)
StartsWith(p, a) == Len(a) <= Len(p) /\ SubSeq(p, 1, Len(a)) = a

Range(s) == { s[n] : n \in 1..Len(s) }

\* ---------------------------------------------------------------- state
VARIABLES
    state,                      \* Orchestrator.state
    speak_q,                    \* Orchestrator._speak_q: the queued items
    unfinished,                 \* asyncio.Queue._unfinished_tasks of _speak_q
    stop_speaking,              \* Orchestrator._stop_speaking
    llm_task,                   \* Orchestrator._llm_task: index into llm, 0 = None
    llm,                        \* every task created by _maybe_start_llm, in order
    pending_prompts,            \* Orchestrator._pending_prompts
    stt_first_partial_emitted,  \* Orchestrator._stt_first_partial_emitted
    active_prompt,              \* Orchestrator._active_prompt
    last_prompt_text,           \* Orchestrator._last_prompt_text
    awaiting_new_turn,          \* Orchestrator._awaiting_new_turn
    tracer,                     \* Tracer.events: the names of the marks, in time order
    lpc,                        \* _listen_loop: where the coroutine is suspended
    lcur,                       \* _listen_loop: the partial / final in hand
    nframes,                    \* frames the audio source has yielded
    npartials,                  \* partials the current stream_partials() has yielded
    spc,                        \* _speak_loop: where the coroutine is suspended
    stext,                      \* _speak_loop: the item being spoken
    naudio,                     \* audio frames the current tts.stream() has yielded
    first_audio_emitted,        \* _speak_loop: first_audio_emitted
    dpc,                        \* handle_session: where the coroutine is suspended
    join_woken,                 \* _speak_q.join(): the waiter has been woken
    tts_stop_called,            \* calls of TTS.stop()
    metrics_sent,               \* keys of the metrics event sent, {} before
    bargeIns,                   \* history: barge-ins triggered
    drained,                    \* history: barge-ins that finished (queue drained)
    turn,                       \* history: endpoints processed
    drainedItems,               \* history: items a barge-in took off the queue
    lastCall,                   \* history: the last call of _maybe_start_llm
    midAtExhaust,               \* history: generations live when the source ended
    stt_events,                 \* the stt_partial / stt_final events sent, in order
    pending_turn,               \* history: the turn that deferred the pending prompt
    interrupted,                \* history: the item being spoken at the last barge-in
    stt_fed,                    \* history: the frames handed to STT.feed, in order
    vad_silence_run,            \* EnergyVAD._silence_run
    vad_endpoint,               \* EnergyVAD._endpoint
    vad_log                     \* history: the calls of the EnergyVAD and their results

orch == <<state, speak_q, unfinished, stop_speaking, llm_task, llm, pending_prompts,
          stt_first_partial_emitted, active_prompt, last_prompt_text,
          awaiting_new_turn, tracer>>
listenv == <<lpc, lcur, nframes, npartials>>
speakv == <<spc, stext, naudio, first_audio_emitted>>
driverv == <<dpc, join_woken, metrics_sent>>
vadv == <<vad_silence_run, vad_endpoint, vad_log>>
auxv == <<stt_fed, vadv>>
obsv == <<stt_events, pending_turn, interrupted, auxv>>
unfedv == <<tts_stop_called, bargeIns, drained, drainedItems, turn, lastCall,
           midAtExhaust, stt_events, pending_turn, interrupted, vadv>>
histv == <<tts_stop_called, bargeIns, drained, drainedItems, turn, lastCall,
          midAtExhaust, obsv>>
vars == <<orch, listenv, speakv, driverv, histv>>

NoPartial == [text |-> <<>>, msb |-> FALSE]
NoCall == [text |-> <<>>, active |-> None, last |-> None, awaiting |-> TRUE,
           state |-> "LISTENING", outcome |-> "none"]

\* handle_session has returned, or raised to its caller.
Returned == dpc \in {"done", "raised"}

\* A generation is live from the call of generate_stream until the loop is left.
Live(i) == llm[i].pc \in {"gen", "sent_text"}
LiveSet == { i \in 1..Len(llm) : Live(i) }

Init ==
    /\ state = "LISTENING"
    /\ speak_q = <<>>
    /\ unfinished = 0
    /\ stop_speaking = FALSE
    /\ llm_task = 0
    /\ llm = <<>>
    /\ pending_prompts = <<>>
    /\ stt_first_partial_emitted = FALSE
    /\ active_prompt = None
    /\ last_prompt_text = None
    /\ awaiting_new_turn = TRUE
    /\ tracer = <<>>
    /\ lpc = "idle"
    /\ lcur = NoPartial
    /\ nframes = 0
    /\ npartials = 0
    /\ spc = "idle"
    /\ stext = Sentinel
    /\ naudio = 0
    /\ first_audio_emitted = FALSE
    /\ dpc = "init"
    /\ join_woken = FALSE
    /\ tts_stop_called = 0
    /\ metrics_sent = {}
    /\ bargeIns = 0
    /\ drained = 0
    /\ drainedItems = 0
    /\ turn = 0
    /\ lastCall = NoCall
    /\ midAtExhaust = {}
    /\ stt_events = <<>>
    /\ pending_turn = 0
    /\ interrupted = Sentinel
    /\ stt_fed = <<>>
    /\ vad_silence_run = 0
    /\ vad_endpoint = FALSE
    /\ vad_log = <<>>

\* ---------------------------------------------------------------- tracer
\* Tracer.mark
Mark(tr, name) == Append(tr, name)

\* Tracer._mark_time(name) is not None
HasMark(tr, name) == name \in Range(tr)

Metrics_WithoutTotal(tr) ==
    { m \in { <<"stt_first_partial_ms", "stt_first_partial">>,
              <<"stt_final_ms", "stt_final">>,
              <<"llm_first_token_ms", "llm_first_token">>,
              <<"tts_first_audio_ms", "tts_first_audio">> } :
        HasMark(tr, "turn_start") /\ HasMark(tr, m[2]) }

\* Tracer.metrics: the keys of the metrics it returns
Metrics(tr) ==
    { m \in { <<"stt_first_partial_ms", "stt_first_partial">>,
              <<"stt_final_ms", "stt_final">>,
              <<"llm_first_token_ms", "llm_first_token">>,
              <<"tts_first_audio_ms", "tts_first_audio">>,
              <<"turn_total_ms", "turn_end">> } :
        HasMark(tr, "turn_start") /\ HasMark(tr, m[2]) }

MetricKeys(tr) == { m[1] : m \in Metrics(tr) }

MarkTime_Last(tr, name) ==
    CHOOSE n \in 1..Len(tr) : tr[n] = name /\ \A m \in (n + 1)..Len(tr) : tr[m] # name

\* Tracer._mark_time: the time of the first mark of that name. The clock is
\* time.perf_counter(), which never goes back, so a time is the place of the
\* mark in events.
MarkTime(tr, name) ==
    CHOOSE n \in 1..Len(tr) : tr[n] = name /\ \A m \in 1..(n - 1) : tr[m] # name

Diff_Swapped(tr, start, end) == MarkTime(tr, start) - MarkTime(tr, end)

\* Tracer.metrics.diff, for marks that exist.
Diff(tr, start, end) == MarkTime(tr, end) - MarkTime(tr, start)

\* Tracer.metrics: the value reported under key k, one of MetricKeys(tr).
MetricValue(tr, k) ==
    LET m == CHOOSE x \in Metrics(tr) : x[1] = k IN Diff(tr, "turn_start", m[2])

\* ---------------------------------------------------------------- queue
\* asyncio.Queue.task_done: one item acknowledged; join()'s waiter is woken when
\* the count reaches zero.
TaskDone(n) ==
    /\ unfinished' = unfinished - n
    /\ join_woken' = (join_woken \/ (dpc = "join_wait" /\ unfinished - n = 0))

\* ---------------------------------------------------------------- _maybe_start_llm
\* asyncio.create_task(run(prompt)): the task is scheduled, run() has not begun.
NewTask(prompt, via) ==
    [prompt |-> prompt, pc |-> "created", first_chunk |-> TRUE, k |-> 0,
     cancel |-> FALSE, entered |-> FALSE, epoch |-> bargeIns,
     turn |-> IF via = "pending" THEN pending_turn ELSE turn, via |-> via,
     exc |-> "none", stopped |-> FALSE]

MaybeStartLLM_EqualOnly(text, via, st, act, last, awaiting, pend, tasks) ==
    LET prompt == Strip(text) IN
    IF prompt = <<>>
    THEN [outcome |-> "empty", pending |-> pend, llm |-> tasks]
    ELSE IF act # None /\ act # <<>> /\ prompt = act
    THEN [outcome |-> "prefix", pending |-> pend, llm |-> tasks]
    ELSE IF ~awaiting /\ prompt = last
    THEN [outcome |-> "duplicate", pending |-> pend, llm |-> tasks]
    ELSE IF st \in {"THINKING", "SPEAKING"}
    THEN [outcome |-> "queued",
          pending |-> IF pend = <<>> \/ pend[Len(pend)] # prompt
                      THEN <<prompt>> ELSE pend,
          llm |-> tasks]
    ELSE [outcome |-> "started", pending |-> pend,
          llm |-> Append(tasks, NewTask(prompt, via))]

MaybeStartLLM_NoActiveCheck(text, via, st, act, last, awaiting, pend, tasks) ==
    LET prompt == Strip(text) IN
    IF prompt = <<>>
    THEN [outcome |-> "empty", pending |-> pend, llm |-> tasks]
    ELSE IF ~awaiting /\ prompt = last
    THEN [outcome |-> "duplicate", pending |-> pend, llm |-> tasks]
    ELSE IF st \in {"THINKING", "SPEAKING"}
    THEN [outcome |-> "queued",
          pending |-> IF pend = <<>> \/ pend[Len(pend)] # prompt
                      THEN <<prompt>> ELSE pend,
          llm |-> tasks]
    ELSE [outcome |-> "started", pending |-> pend,
          llm |-> Append(tasks, NewTask(prompt, via))]

MaybeStartLLM_AppendPending(text, via, st, act, last, awaiting, pend, tasks) ==
    LET prompt == Strip(text) IN
    IF prompt = <<>>
    THEN [outcome |-> "empty", pending |-> pend, llm |-> tasks]
    ELSE IF act # None /\ act # <<>> /\ StartsWith(prompt, act)
    THEN [outcome |-> "prefix", pending |-> pend, llm |-> tasks]
    ELSE IF ~awaiting /\ prompt = last
    THEN [outcome |-> "duplicate", pending |-> pend, llm |-> tasks]
    ELSE IF st \in {"THINKING", "SPEAKING"}
    THEN [outcome |-> "queued",
          pending |-> IF pend = <<>> \/ pend[Len(pend)] # prompt
                      THEN Append(pend, prompt) ELSE pend,
          llm |-> tasks]
    ELSE [outcome |-> "started", pending |-> pend,
          llm |-> Append(tasks, NewTask(prompt, via))]

MaybeStartLLM_PrefixDefers(text, via, st, act, last, awaiting, pend, tasks) ==
    LET prompt == Strip(text) IN
    IF prompt = <<>>
    THEN [outcome |-> "empty", pending |-> pend, llm |-> tasks]
    ELSE IF act # None /\ act # <<>> /\ StartsWith(prompt, act)
    THEN [outcome |-> "prefix", pending |-> <<prompt>>, llm |-> tasks]
    ELSE IF ~awaiting /\ prompt = last
    THEN [outcome |-> "duplicate", pending |-> pend, llm |-> tasks]
    ELSE IF st \in {"THINKING", "SPEAKING"}
    THEN [outcome |-> "queued",
          pending |-> IF pend = <<>> \/ pend[Len(pend)] # prompt
                      THEN <<prompt>> ELSE pend,
          llm |-> tasks]
    ELSE [outcome |-> "started", pending |-> pend,
          llm |-> Append(tasks, NewTask(prompt, via))]

\* Orchestrator._maybe_start_llm up to create_task, as a function of the fields it
\* reads: the outcome, the pending buffer and the tasks afterwards.
MaybeStartLLM(text, via, st, act, last, awaiting, pend, tasks) ==
    LET prompt == Strip(text) IN
    IF prompt = <<>>
    THEN [outcome |-> "empty", pending |-> pend, llm |-> tasks]
    ELSE IF act # None /\ act # <<>> /\ StartsWith(prompt, act)
    THEN [outcome |-> "prefix", pending |-> pend, llm |-> tasks]
    ELSE IF ~awaiting /\ prompt = last
    THEN [outcome |-> "duplicate", pending |-> pend, llm |-> tasks]
    ELSE IF st \in {"THINKING", "SPEAKING"}
    THEN [outcome |-> "queued",
          pending |-> IF pend = <<>> \/ pend[Len(pend)] # prompt
                      THEN <<prompt>> ELSE pend,
          llm |-> tasks]
    ELSE [outcome |-> "started", pending |-> pend,
          llm |-> Append(tasks, NewTask(prompt, via))]

\* A call of _maybe_start_llm from a coroutine whose view of the fields is
\* (st, act, last, awaiting, pend, tasks).
CallMaybeStartLLM(text, via, st, act, last, awaiting, pend, tasks) ==
    LET r == MaybeStartLLM(text, via, st, act, last, awaiting, pend, tasks) IN
    /\ pending_prompts' = r.pending
    /\ llm' = r.llm
    /\ llm_task' = IF r.outcome = "started" THEN Len(r.llm) ELSE llm_task
    /\ lastCall' = [text |-> text, active |-> act, last |-> last,
                    awaiting |-> awaiting, state |-> st, outcome |-> r.outcome]
    /\ pending_turn' = IF r.outcome = "queued" /\ via # "pending" /\ r.pending # pend
                       THEN turn ELSE pending_turn

\* ---------------------------------------------------------------- handle_session
\* Lines 61-74: the reset of the per-session fields and the two create_task calls.
DriverStart ==
    /\ dpc = "init"
    /\ tracer' = Mark(<<>>, "turn_start")
    /\ state' = "LISTENING"
    /\ stt_first_partial_emitted' = FALSE
    /\ awaiting_new_turn' = TRUE
    /\ pending_prompts' = <<>>
    /\ active_prompt' = None
    /\ last_prompt_text' = None
    /\ stop_speaking' = FALSE
    /\ lpc' = "next_frame"
    /\ spc' = "get"
    /\ dpc' = "await_listen"
    /\ UNCHANGED <<speak_q, unfinished, llm_task, llm, lcur, nframes, npartials,
                   stext, naudio, first_audio_emitted, join_woken, metrics_sent, histv>>

\* Lines 76-79: listen_task is done; join() returns at once when nothing is
\* unacknowledged, and the sentinel is put.
DriverJoinPut ==
    /\ dpc = "await_listen"
    /\ lpc = "done"
    /\ unfinished = 0
    /\ speak_q' = Append(speak_q, Sentinel)
    /\ unfinished' = unfinished + 1
    /\ dpc' = "await_speak"
    /\ UNCHANGED <<state, stop_speaking, llm_task, llm, pending_prompts,
                   stt_first_partial_emitted, active_prompt, last_prompt_text,
                   awaiting_new_turn, tracer, listenv, speakv, join_woken,
                   metrics_sent, histv>>

\* Line 78: join() has to wait for the queue's _finished event.
DriverJoinWait ==
    /\ dpc = "await_listen"
    /\ lpc = "done"
    /\ unfinished > 0
    /\ dpc' = "join_wait"
    /\ join_woken' = FALSE
    /\ UNCHANGED <<orch, listenv, speakv, metrics_sent, histv>>

\* Lines 78-79: the woken join() returns (it does not look at the count again)
\* and the sentinel is put.
DriverJoinWoken ==
    /\ dpc = "join_wait"
    /\ join_woken
    /\ speak_q' = Append(speak_q, Sentinel)
    /\ unfinished' = unfinished + 1
    /\ dpc' = "await_speak"
    /\ UNCHANGED <<state, stop_speaking, llm_task, llm, pending_prompts,
                   stt_first_partial_emitted, active_prompt, last_prompt_text,
                   awaiting_new_turn, tracer, listenv, speakv, join_woken,
                   metrics_sent, histv>>

\* Lines 80-85: speak_task is done; turn_end is marked and the metrics are sent.
DriverMetrics ==
    /\ dpc = "await_speak"
    /\ spc = "done"
    /\ tracer' = Mark(tracer, "turn_end")
    /\ IF MetricKeys(tracer') # {}
       THEN metrics_sent' = MetricKeys(tracer') /\ dpc' = "send_metrics"
       ELSE metrics_sent' = metrics_sent /\ dpc' = "done"
    /\ UNCHANGED <<state, speak_q, unfinished, stop_speaking, llm_task, llm,
                   pending_prompts, stt_first_partial_emitted, active_prompt,
                   last_prompt_text, awaiting_new_turn, listenv, speakv,
                   join_woken, histv>>

\* Lines 85-86: send_json returned; the tracer is dumped and handle_session returns.
DriverReturn ==
    /\ dpc = "send_metrics"
    /\ dpc' = "done"
    /\ UNCHANGED <<orch, listenv, speakv, join_woken, metrics_sent, histv>>

\* ---------------------------------------------------------------- _interrupt_speaking
TtsStop_Skipped(n) == n

\* Line 234, await self.tts.stop(): the calls of TTS.stop() after one more.
TtsStop(n) == n + 1

DrainAcks_None(q) == 0

\* Lines 239-248: the task_done calls of the drain, one per queued item.
DrainAcks(q) == Len(q)

\* ---------------------------------------------------------------- _listen_loop
StateAfter_First(assignments) == assignments[1]

\* Lines 102 and 108: self.state after assignments with no suspension between
\* them, as the other activities find it: the last one assigned.
StateAfter(assignments) == assignments[Len(assignments)]

\* Lines 109 and 116, await self.stt.feed(pcm, ...): the frames fed after frame n.
SttFeed(fed, n) == Append(fed, n)

\* Lines 122-128 and 150-156: the event handed to send_json, as the client sees
\* it: its type, the frame being processed and the turn (the endpoints before it).
SttEvent(type) == [type |-> type, frame |-> nframes, turn |-> turn]

\* Lines 97-102 on a voice frame while SPEAKING: _interrupt_speaking sets the stop
\* signal and calls tts.stop(), where it is suspended.
ListenBargeIn ==
    /\ lpc = "next_frame"
    /\ nframes < MaxFrames
    /\ state = "SPEAKING"
    /\ nframes' = nframes + 1
    /\ stop_speaking' = TRUE
    /\ tts_stop_called' = TtsStop(tts_stop_called)
    /\ bargeIns' = bargeIns + 1
    /\ interrupted' = IF spc = "tts" THEN stext ELSE interrupted
    /\ lpc' = "int_stop"
    /\ UNCHANGED <<state, speak_q, unfinished, llm_task, llm, pending_prompts,
                   stt_first_partial_emitted, active_prompt, last_prompt_text,
                   awaiting_new_turn, tracer, lcur, npartials, speakv, driverv,
                   drained, drainedItems, turn, lastCall, midAtExhaust,
                   stt_events, pending_turn, auxv>>

\* Lines 235-248 and 102-109: tts.stop() returned; the buffers are cleared, the
\* queue is drained with one task_done per item, the state passes through
\* INTERRUPTED to LISTENING and the frame is fed to the recogniser.
InterruptResume ==
    /\ lpc = "int_stop"
    /\ pending_prompts' = <<>>
    /\ active_prompt' = None
    /\ last_prompt_text' = None
    /\ awaiting_new_turn' = FALSE
    /\ speak_q' = <<>>
    /\ TaskDone(DrainAcks(speak_q))
    /\ state' = StateAfter(<<"INTERRUPTED", "LISTENING">>)
    /\ drained' = drained + 1
    /\ drainedItems' = drainedItems + Len(speak_q)
    /\ npartials' = 0
    /\ stt_fed' = SttFeed(stt_fed, nframes)
    /\ lpc' = "partials"
    /\ UNCHANGED <<stop_speaking, llm_task, llm, stt_first_partial_emitted, tracer,
                   lcur, nframes, speakv, dpc, metrics_sent, tts_stop_called,
                   bargeIns, turn, lastCall, midAtExhaust, stt_events,
                   pending_turn, interrupted, vadv>>

ListenVoice_KeepLast ==
    /\ lpc = "next_frame"
    /\ nframes < MaxFrames
    /\ state # "SPEAKING"
    /\ nframes' = nframes + 1
    /\ awaiting_new_turn' = FALSE
    /\ state' = "LISTENING"
    /\ npartials' = 0
    /\ stt_fed' = SttFeed(stt_fed, nframes')
    /\ lpc' = "partials"
    /\ UNCHANGED <<speak_q, unfinished, stop_speaking, llm_task, llm,
                   pending_prompts, stt_first_partial_emitted, active_prompt,
                   last_prompt_text, tracer, lcur, speakv, driverv, unfedv>>

\* Lines 97-109 on a voice frame outside SPEAKING: a new turn forgets the last
\* prompt, the state becomes LISTENING and the frame is fed to the recogniser.
ListenVoice ==
    /\ lpc = "next_frame"
    /\ nframes < MaxFrames
    /\ state # "SPEAKING"
    /\ nframes' = nframes + 1
    /\ awaiting_new_turn' = FALSE
    /\ last_prompt_text' = IF awaiting_new_turn THEN None ELSE last_prompt_text
    /\ state' = "LISTENING"
    /\ npartials' = 0
    /\ stt_fed' = SttFeed(stt_fed, nframes')
    /\ lpc' = "partials"
    /\ UNCHANGED <<speak_q, unfinished, stop_speaking, llm_task, llm,
                   pending_prompts, stt_first_partial_emitted, active_prompt,
                   tracer, lcur, speakv, driverv, unfedv>>

ListenSilence_NoFeed ==
    /\ lpc = "next_frame"
    /\ nframes < MaxFrames
    /\ nframes' = nframes + 1
    /\ lpc' = "feed_silence"
    /\ UNCHANGED <<orch, lcur, npartials, speakv, driverv, histv>>

\* Lines 97-116 on a silent frame: it is fed to the recogniser all the same.
ListenSilence ==
    /\ lpc = "next_frame"
    /\ nframes < MaxFrames
    /\ nframes' = nframes + 1
    /\ stt_fed' = SttFeed(stt_fed, nframes')
    /\ lpc' = "feed_silence"
    /\ UNCHANGED <<orch, lcur, npartials, speakv, driverv, unfedv>>

ListenPartialOf_NoEmit(ps) ==
    /\ lpc = "partials"
    /\ lcur' \in ps
    /\ npartials' = npartials + 1
    /\ lpc' = "sent_partial"
    /\ UNCHANGED <<orch, nframes, speakv, driverv, histv>>

ListenPartialOf_SubmitFirst(ps) ==
    \/ /\ lpc = "partials"
       /\ lcur' \in ps
       /\ IF lcur'.msb
          THEN CallMaybeStartLLM(lcur'.text, "partial", state, active_prompt,
                                 last_prompt_text, awaiting_new_turn,
                                 pending_prompts, llm)
          ELSE UNCHANGED <<pending_prompts, llm, llm_task, lastCall, pending_turn>>
       /\ lpc' = "submitted"
       /\ UNCHANGED <<state, speak_q, unfinished, stop_speaking,
                      stt_first_partial_emitted, active_prompt, last_prompt_text,
                      awaiting_new_turn, tracer, nframes, npartials, speakv,
                      driverv, tts_stop_called, bargeIns, drained, drainedItems,
                      turn, midAtExhaust, stt_events,
                      interrupted, auxv>>
    \/ /\ lpc = "submitted"
       /\ lcur' = [lcur EXCEPT !.msb = FALSE]
       /\ npartials' = npartials + 1
       /\ tracer' = IF stt_first_partial_emitted THEN tracer
                    ELSE Mark(tracer, "stt_first_partial")
       /\ stt_first_partial_emitted' = TRUE
       /\ stt_events' = Append(stt_events, SttEvent("stt_partial"))
       /\ lpc' = "sent_partial"
       /\ UNCHANGED <<state, speak_q, unfinished, stop_speaking, llm_task, llm,
                      pending_prompts, active_prompt, last_prompt_text,
                      awaiting_new_turn, nframes, speakv, driverv,
                      tts_stop_called, bargeIns, drained, drainedItems, turn,
                      lastCall, midAtExhaust, pending_turn,
                      interrupted, auxv>>

\* Lines 110-111 and 147-156: stream_partials() yields one of the partials ps; the
\* first one of the session is marked and the stt_partial event is sent.
ListenPartialOf(ps) ==
    /\ lpc = "partials"
    /\ lcur' \in ps
    /\ npartials' = npartials + 1
    /\ tracer' = IF stt_first_partial_emitted THEN tracer
                 ELSE Mark(tracer, "stt_first_partial")
    /\ stt_first_partial_emitted' = TRUE
    /\ stt_events' = Append(stt_events, SttEvent("stt_partial"))
    /\ lpc' = "sent_partial"
    /\ UNCHANGED <<state, speak_q, unfinished, stop_speaking, llm_task, llm,
                   pending_prompts, active_prompt, last_prompt_text,
                   awaiting_new_turn, nframes, speakv, driverv, tts_stop_called,
                   bargeIns, drained, drainedItems, turn, lastCall, midAtExhaust,
                   pending_turn, interrupted, auxv>>

\* The recogniser yields any of the texts, at a sentence boundary or not.
ListenPartial ==
    /\ npartials < MaxPartials
    /\ Len(llm) < MaxTasks
    /\ ListenPartialOf({ [text |-> t, msb |-> b] : t \in Texts, b \in BOOLEAN })

\* The recogniser of the coalescing scenario: the sentence-boundary partials
\* A, A B, A B C, in that order, on one voice frame with no endpoint.
ScriptS4 == << <<"a">>, <<"a", "b">>, <<"a", "b", "c">> >>
VoiceS4 == <<TRUE>>

ListenPartialS4 ==
    /\ npartials < Len(ScriptS4)
    /\ Len(llm) < MaxTasks
    /\ ListenPartialOf({ [text |-> ScriptS4[npartials + 1], msb |-> TRUE] })

\* Lines 112-113: send_json returned; a partial at a sentence boundary is handed
\* to _maybe_start_llm.
ListenPartialSent ==
    /\ lpc = "sent_partial"
    /\ ~(lcur.msb /\ lcur.text = Missing)
    /\ IF lcur.msb
       THEN CallMaybeStartLLM(lcur.text, "partial", state, active_prompt,
                              last_prompt_text, awaiting_new_turn,
                              pending_prompts, llm)
       ELSE UNCHANGED <<pending_prompts, llm, llm_task, lastCall, pending_turn>>
    /\ lcur' = NoPartial
    /\ lpc' = "partials"
    /\ UNCHANGED <<state, speak_q, unfinished, stop_speaking,
                   stt_first_partial_emitted, active_prompt, last_prompt_text,
                   awaiting_new_turn, tracer, nframes, npartials, speakv, driverv,
                   tts_stop_called, bargeIns, drained, drainedItems, turn,
                   midAtExhaust, stt_events,
                   interrupted, auxv>>

\* Lines 118-119: the partials of the frame are drained (or the silent frame is
\* fed); vad.endpointed() is read (one of eps) and, at an endpoint, get_final()
\* is awaited.
ListenEndpointOf(eps) ==
    /\ lpc \in {"partials", "feed_silence"}
    /\ \E ep \in eps :
          lpc' = IF ep /\ Len(llm) < MaxTasks THEN "get_final" ELSE "next_frame"
    /\ UNCHANGED <<orch, lcur, nframes, npartials, speakv, driverv, histv>>

ListenEndpoint == ListenEndpointOf(BOOLEAN)

\* Lines 119-128: get_final() returned one of the texts ts; stt_final is marked
\* once and the stt_final event is sent.
ListenFinalOf(ts) ==
    /\ lpc = "get_final"
    /\ \E t \in ts : lcur' = [text |-> t, msb |-> TRUE]
    /\ tracer' = IF HasMark(tracer, "stt_final") THEN tracer
                 ELSE Mark(tracer, "stt_final")
    /\ stt_events' = Append(stt_events, SttEvent("stt_final"))
    /\ lpc' = "sent_final"
    /\ UNCHANGED <<state, speak_q, unfinished, stop_speaking, llm_task, llm,
                   pending_prompts, stt_first_partial_emitted, active_prompt,
                   last_prompt_text, awaiting_new_turn, nframes, npartials,
                   speakv, driverv, tts_stop_called, bargeIns, drained,
                   drainedItems, turn, lastCall, midAtExhaust, pending_turn,
                   interrupted, auxv>>

ListenFinal == ListenFinalOf(Texts)

ListenFinalSent_ThenDrain ==
    /\ lpc = "sent_final"
    /\ CallMaybeStartLLM(lcur.text, "final", state, active_prompt,
                         last_prompt_text, awaiting_new_turn, pending_prompts, llm)
    /\ awaiting_new_turn' = TRUE
    /\ turn' = turn + 1
    /\ lcur' = NoPartial
    /\ lpc' = "partials"
    /\ UNCHANGED <<state, speak_q, unfinished, stop_speaking,
                   stt_first_partial_emitted, active_prompt, last_prompt_text,
                   tracer, nframes, npartials, speakv, driverv, tts_stop_called,
                   bargeIns, drained, drainedItems, midAtExhaust, stt_events,
                   interrupted, auxv>>

ListenFinalSent_NoAwaiting ==
    /\ lpc = "sent_final"
    /\ CallMaybeStartLLM(lcur.text, "final", state, active_prompt,
                         last_prompt_text, awaiting_new_turn, pending_prompts, llm)
    /\ turn' = turn + 1
    /\ lcur' = NoPartial
    /\ lpc' = "next_frame"
    /\ UNCHANGED <<state, speak_q, unfinished, stop_speaking,
                   stt_first_partial_emitted, active_prompt, last_prompt_text,
                   awaiting_new_turn, tracer, nframes, npartials, speakv, driverv,
                   tts_stop_called, bargeIns, drained, drainedItems, midAtExhaust,
                   stt_events, interrupted, auxv>>

\* Lines 129-133: send_json returned; the final text is handed to
\* _maybe_start_llm, the VAD is reset and a new turn is awaited.
ListenFinalSent ==
    /\ lpc = "sent_final"
    /\ CallMaybeStartLLM(lcur.text, "final", state, active_prompt,
                         last_prompt_text, awaiting_new_turn, pending_prompts, llm)
    /\ awaiting_new_turn' = TRUE
    /\ turn' = turn + 1
    /\ lcur' = NoPartial
    /\ lpc' = "next_frame"
    /\ UNCHANGED <<state, speak_q, unfinished, stop_speaking,
                   stt_first_partial_emitted, active_prompt, last_prompt_text,
                   tracer, nframes, npartials, speakv, driverv, tts_stop_called,
                   bargeIns, drained, drainedItems, midAtExhaust, stt_events,
                   interrupted, auxv>>

\* Lines 134-139, the source is exhausted and _llm_task is not done: it is
\* cancelled and awaited.
ListenExhaustedCancel ==
    /\ lpc = "next_frame"
    /\ llm_task # 0
    /\ llm[llm_task].pc # "done"
    /\ llm' = [llm EXCEPT ![llm_task].cancel = TRUE]
    /\ midAtExhaust' = LiveSet
    /\ lpc' = "await_llm"
    /\ UNCHANGED <<state, speak_q, unfinished, stop_speaking, llm_task,
                   pending_prompts, stt_first_partial_emitted, active_prompt,
                   last_prompt_text, awaiting_new_turn, tracer, lcur, nframes,
                   npartials, speakv, driverv, tts_stop_called, bargeIns, drained,
                   drainedItems, turn, lastCall, obsv>>

\* Lines 134-136, the source is exhausted and there is no task, or it is done.
ListenExhausted ==
    /\ lpc = "next_frame"
    /\ llm_task # 0 => llm[llm_task].pc = "done"
    /\ midAtExhaust' = LiveSet
    /\ lpc' = "done"
    /\ UNCHANGED <<orch, lcur, nframes, npartials, speakv, driverv,
                   tts_stop_called, bargeIns, drained, drainedItems, turn,
                   lastCall, obsv>>

\* Lines 138-139: the cancelled task (the only one ever cancelled) is done.
ListenAwaited ==
    /\ lpc = "await_llm"
    /\ \E i \in 1..Len(llm) : llm[i].cancel /\ llm[i].pc = "done"
    /\ lpc' = "done"
    /\ UNCHANGED <<orch, lcur, nframes, npartials, speakv, driverv, histv>>

\* ---------------------------------------------------------------- run (the LLM task)
\* The session is followed until handle_session returns: no task steps after it.
\* Lines 180-186: run() begins and calls generate_stream.
LLMStart(i) ==
    /\ ~Returned
    /\ llm[i].pc = "created"
    /\ ~llm[i].cancel
    /\ state' = "THINKING"
    /\ active_prompt' = llm[i].prompt
    /\ last_prompt_text' = llm[i].prompt
    /\ awaiting_new_turn' = FALSE
    /\ llm' = [llm EXCEPT ![i].pc = "gen", ![i].entered = TRUE]
    /\ UNCHANGED <<speak_q, unfinished, stop_speaking, llm_task, pending_prompts,
                   stt_first_partial_emitted, tracer, listenv, speakv, driverv,
                   histv>>

LLMFinally_KeepState(ts) ==
    /\ active_prompt' = None
    /\ stop_speaking' = FALSE
    /\ UNCHANGED last_prompt_text
    /\ IF pending_prompts # <<>>
       THEN /\ CallMaybeStartLLM(Head(pending_prompts), "pending", state, None,
                                 last_prompt_text, awaiting_new_turn,
                                 Tail(pending_prompts), ts)
            /\ UNCHANGED <<state, awaiting_new_turn>>
       ELSE /\ state' = state
            /\ awaiting_new_turn' = TRUE
            /\ llm' = ts
            /\ UNCHANGED <<pending_prompts, llm_task, lastCall, pending_turn>>

\* Lines 195-205, the finally block of run(), for the tasks as they are in ts.
LLMFinally(ts) ==
    /\ active_prompt' = None
    /\ stop_speaking' = FALSE
    /\ UNCHANGED last_prompt_text
    /\ IF pending_prompts # <<>>
       THEN /\ CallMaybeStartLLM(Head(pending_prompts), "pending", state, None,
                                 last_prompt_text, awaiting_new_turn,
                                 Tail(pending_prompts), ts)
            /\ UNCHANGED <<state, awaiting_new_turn>>
       ELSE /\ state' = "LISTENING"
            /\ awaiting_new_turn' = TRUE
            /\ llm' = ts
            /\ UNCHANGED <<pending_prompts, llm_task, lastCall, pending_turn>>

LLMChunkOf_NoStopCheck(i, max) ==
    /\ ~Returned
    /\ llm[i].pc = "gen"
    /\ ~llm[i].cancel
    /\ llm[i].k < max
    /\ llm' = [llm EXCEPT ![i].pc = "sent_text", ![i].k = @ + 1,
                          ![i].first_chunk = FALSE]
    /\ tracer' = IF llm[i].first_chunk THEN Mark(tracer, "llm_first_token")
                 ELSE tracer
    /\ state' = IF llm[i].first_chunk THEN "SPEAKING" ELSE state
    /\ UNCHANGED <<stop_speaking, llm_task, pending_prompts, active_prompt,
                   last_prompt_text, awaiting_new_turn, lastCall, pending_turn>>
    /\ UNCHANGED <<speak_q, unfinished, stt_first_partial_emitted, listenv, speakv,
                   driverv, tts_stop_called, bargeIns, drained, drainedItems,
                   turn, midAtExhaust, stt_events, interrupted, auxv>>

\* Lines 186-193: generate_stream (of at most max chunks) yields a chunk; the stop
\* signal ends the loop, otherwise the first chunk is marked and the
\* assistant_text event is sent.
LLMChunkOf(i, max) ==
    /\ ~Returned
    /\ llm[i].pc = "gen"
    /\ ~llm[i].cancel
    /\ llm[i].k < max
    /\ IF stop_speaking
       THEN /\ LLMFinally([llm EXCEPT ![i].pc = "done", ![i].stopped = TRUE])
            /\ UNCHANGED <<tracer>>
       ELSE /\ llm' = [llm EXCEPT ![i].pc = "sent_text", ![i].k = @ + 1,
                                  ![i].first_chunk = FALSE]
            /\ tracer' = IF llm[i].first_chunk THEN Mark(tracer, "llm_first_token")
                         ELSE tracer
            /\ state' = IF llm[i].first_chunk THEN "SPEAKING" ELSE state
            /\ UNCHANGED <<stop_speaking, llm_task, pending_prompts, active_prompt,
                           last_prompt_text, awaiting_new_turn, lastCall,
                           pending_turn>>
    /\ UNCHANGED <<speak_q, unfinished, stt_first_partial_emitted, listenv, speakv,
                   driverv, tts_stop_called, bargeIns, drained, drainedItems,
                   turn, midAtExhaust, stt_events,
                   interrupted, auxv>>

LLMChunk(i) == LLMChunkOf(i, MaxChunks)

LLMPut_BeforeSend(i) ==
    /\ ~Returned
    /\ llm[i].pc = "sent_text"
    /\ ~llm[i].cancel
    /\ speak_q' = Append(speak_q, <<i, llm[i].k + 1>>)
    /\ unfinished' = unfinished + 1
    /\ llm' = [llm EXCEPT ![i].pc = "gen"]
    /\ UNCHANGED <<state, stop_speaking, llm_task, pending_prompts,
                   stt_first_partial_emitted, active_prompt, last_prompt_text,
                   awaiting_new_turn, tracer, listenv, speakv, driverv, histv>>

\* Line 194: send_json returned; the chunk is put on the speech queue.
LLMPut(i) ==
    /\ ~Returned
    /\ llm[i].pc = "sent_text"
    /\ ~llm[i].cancel
    /\ speak_q' = Append(speak_q, <<i, llm[i].k>>)
    /\ unfinished' = unfinished + 1
    /\ llm' = [llm EXCEPT ![i].pc = "gen"]
    /\ UNCHANGED <<state, stop_speaking, llm_task, pending_prompts,
                   stt_first_partial_emitted, active_prompt, last_prompt_text,
                   awaiting_new_turn, tracer, listenv, speakv, driverv, histv>>

\* Lines 186 and 195-205: generate_stream is exhausted.
LLMEnd(i) ==
    /\ ~Returned
    /\ llm[i].pc = "gen"
    /\ ~llm[i].cancel
    /\ LLMFinally([llm EXCEPT ![i].pc = "done"])
    /\ UNCHANGED <<speak_q, unfinished, stt_first_partial_emitted, tracer, listenv,
                   speakv, driverv, tts_stop_called, bargeIns, drained, drainedItems, turn,
                   midAtExhaust, stt_events,
                   interrupted, auxv>>

\* Task.cancel() delivered to a task that never ran: run() is never entered.
LLMCancelledUnstarted(i) ==
    /\ ~Returned
    /\ llm[i].pc = "created"
    /\ llm[i].cancel
    /\ llm' = [llm EXCEPT ![i].pc = "done"]
    /\ UNCHANGED <<state, speak_q, unfinished, stop_speaking, llm_task,
                   pending_prompts, stt_first_partial_emitted, active_prompt,
                   last_prompt_text, awaiting_new_turn, tracer, listenv, speakv,
                   driverv, histv>>

\* CancelledError raised at the await where run() is suspended; lines 195-205.
LLMCancelled(i) ==
    /\ ~Returned
    /\ llm[i].pc \in {"gen", "sent_text"}
    /\ llm[i].cancel
    /\ LLMFinally([llm EXCEPT ![i].pc = "done"])
    /\ UNCHANGED <<speak_q, unfinished, stt_first_partial_emitted, tracer, listenv,
                   speakv, driverv, tts_stop_called, bargeIns, drained, drainedItems, turn,
                   midAtExhaust, stt_events,
                   interrupted, auxv>>

\* ---------------------------------------------------------------- _speak_loop
SpeakGet_AfterGeneration ==
    /\ spc = "get"
    /\ speak_q # <<>>
    /\ Head(speak_q) # Sentinel
    /\ llm[Head(speak_q)[1]].pc = "done"
    /\ stext' = Head(speak_q)
    /\ speak_q' = Tail(speak_q)
    /\ naudio' = 0
    /\ spc' = "tts"
    /\ UNCHANGED <<state, unfinished, stop_speaking, llm_task, llm, pending_prompts,
                   stt_first_partial_emitted, active_prompt, last_prompt_text,
                   awaiting_new_turn, tracer, listenv, first_audio_emitted,
                   driverv, histv>>

\* Lines 216 and 221: a text item is taken and handed to tts.stream.
SpeakGet ==
    /\ spc = "get"
    /\ speak_q # <<>>
    /\ Head(speak_q) # Sentinel
    /\ stext' = Head(speak_q)
    /\ speak_q' = Tail(speak_q)
    /\ naudio' = 0
    /\ spc' = "tts"
    /\ UNCHANGED <<state, unfinished, stop_speaking, llm_task, llm, pending_prompts,
                   stt_first_partial_emitted, active_prompt, last_prompt_text,
                   awaiting_new_turn, tracer, listenv, first_audio_emitted,
                   driverv, histv>>

\* Lines 216-219: the sentinel is taken and acknowledged; the loop ends.
SpeakSentinel ==
    /\ spc = "get"
    /\ speak_q # <<>>
    /\ Head(speak_q) = Sentinel
    /\ speak_q' = Tail(speak_q)
    /\ TaskDone(1)
    /\ spc' = "done"
    /\ UNCHANGED <<state, stop_speaking, llm_task, llm, pending_prompts,
                   stt_first_partial_emitted, active_prompt, last_prompt_text,
                   awaiting_new_turn, tracer, listenv, stext, naudio,
                   first_audio_emitted, dpc, metrics_sent, histv>>

SpeakAudio_BreakNoAck ==
    /\ spc = "tts"
    /\ naudio < MaxAudio
    /\ naudio' = naudio + 1
    /\ IF stop_speaking
       THEN /\ spc' = "get"
            /\ UNCHANGED <<tracer, first_audio_emitted, unfinished, join_woken>>
       ELSE /\ tracer' = IF first_audio_emitted THEN tracer
                         ELSE Mark(tracer, "tts_first_audio")
            /\ first_audio_emitted' = TRUE
            /\ UNCHANGED <<unfinished, join_woken, spc>>
    /\ UNCHANGED <<state, speak_q, stop_speaking, llm_task, llm, pending_prompts,
                   stt_first_partial_emitted, active_prompt, last_prompt_text,
                   awaiting_new_turn, listenv, stext, dpc, metrics_sent, histv>>

\* Lines 221-229: tts.stream yields an audio frame; the stop signal ends the
\* utterance (the item is acknowledged), otherwise the frame is sent.
SpeakAudio ==
    /\ spc = "tts"
    /\ naudio < MaxAudio
    /\ naudio' = naudio + 1
    /\ IF stop_speaking
       THEN /\ TaskDone(1)
            /\ spc' = "get"
            /\ UNCHANGED <<tracer, first_audio_emitted>>
       ELSE /\ tracer' = IF first_audio_emitted THEN tracer
                         ELSE Mark(tracer, "tts_first_audio")
            /\ first_audio_emitted' = TRUE
            /\ UNCHANGED <<unfinished, join_woken, spc>>
    /\ UNCHANGED <<state, speak_q, stop_speaking, llm_task, llm, pending_prompts,
                   stt_first_partial_emitted, active_prompt, last_prompt_text,
                   awaiting_new_turn, listenv, stext, dpc, metrics_sent, histv>>

\* Lines 221 and 228-229: tts.stream is exhausted; the item is acknowledged.
SpeakEnd ==
    /\ spc = "tts"
    /\ TaskDone(1)
    /\ spc' = "get"
    /\ UNCHANGED <<state, speak_q, stop_speaking, llm_task, llm, pending_prompts,
                   stt_first_partial_emitted, active_prompt, last_prompt_text,
                   awaiting_new_turn, tracer, listenv, stext, naudio,
                   first_audio_emitted, dpc, metrics_sent, histv>>

\* ---------------------------------------------------------------- specification
Driver == DriverStart \/ DriverJoinPut \/ DriverJoinWait \/ DriverJoinWoken
          \/ DriverMetrics \/ DriverReturn

Listen == ListenBargeIn \/ InterruptResume \/ ListenVoice \/ ListenSilence
          \/ ListenPartial \/ ListenPartialSent \/ ListenEndpoint \/ ListenFinal
          \/ ListenFinalSent \/ ListenExhaustedCancel \/ ListenExhausted
          \/ ListenAwaited

LLM == \/ \E i \in 1..Len(llm) : LLMStart(i)
       \/ \E i \in 1..Len(llm) : LLMChunk(i)
       \/ \E i \in 1..Len(llm) : LLMPut(i)
       \/ \E i \in 1..Len(llm) : LLMEnd(i)
       \/ \E i \in 1..Len(llm) : LLMCancelledUnstarted(i)
       \/ \E i \in 1..Len(llm) : LLMCancelled(i)

Speak == SpeakGet \/ SpeakSentinel \/ SpeakAudio \/ SpeakEnd

Next == Driver \/ Listen \/ Speak \/ LLM

Spec == Init /\ [][Next]_vars

\* The session of the coalescing scenario.
ListenVoiceS4 == nframes < Len(VoiceS4) /\ VoiceS4[nframes + 1] /\ ListenVoice

ListenEndpointS4 == ListenEndpointOf({FALSE})

ListenS4 == ListenVoiceS4 \/ ListenPartialS4 \/ ListenPartialSent
            \/ ListenEndpointS4 \/ ListenExhaustedCancel \/ ListenExhausted
            \/ ListenAwaited

NextS4 == Driver \/ ListenS4 \/ Speak \/ LLM

SpecS4 == Init /\ [][NextS4]_vars

\* The session of test_tts_starts_on_first_llm_chunk: two frames, voice then
\* silence, the endpoint after the second; the recogniser yields the
\* sentence-boundary partial "hola" and the final "hola"; a generation yields
\* up to three chunks and may stay blocked before any of them.
TextsS2 == { <<"a">> }
ChunksS2 == 3
VoiceS2 == <<TRUE, FALSE>>
EndpointAfterS2 == 2

ListenVoiceS2 == nframes < Len(VoiceS2) /\ VoiceS2[nframes + 1] /\ ListenVoice

ListenSilenceS2 == nframes < Len(VoiceS2) /\ ~VoiceS2[nframes + 1] /\ ListenSilence

ListenPartialS2 ==
    /\ npartials < MaxPartials
    /\ Len(llm) < MaxTasks
    /\ ListenPartialOf({ [text |-> t, msb |-> TRUE] : t \in TextsS2 })

ListenEndpointS2 == ListenEndpointOf({ nframes >= EndpointAfterS2 })

ListenFinalS2 == ListenFinalOf(TextsS2)

ListenS2 == ListenVoiceS2 \/ ListenSilenceS2 \/ ListenPartialS2
            \/ ListenPartialSent \/ ListenEndpointS2 \/ ListenFinalS2
            \/ ListenFinalSent \/ ListenExhaustedCancel \/ ListenExhausted
            \/ ListenAwaited

LLMS2 == \/ \E i \in 1..Len(llm) : LLMStart(i)
         \/ \E i \in 1..Len(llm) : LLMChunkOf(i, ChunksS2)
         \/ \E i \in 1..Len(llm) : LLMPut(i)
         \/ \E i \in 1..Len(llm) : LLMEnd(i)
         \/ \E i \in 1..Len(llm) : LLMCancelledUnstarted(i)
         \/ \E i \in 1..Len(llm) : LLMCancelled(i)

NextS2 == Driver \/ ListenS2 \/ Speak \/ LLMS2

SpecS2 == Init /\ [][NextS2]_vars

\* The event loop runs every ready task: the speak loop, the listen loop and the
\* driver are not starved; the LLM may stay blocked.
FairS2 == SpecS2 /\ WF_vars(Speak) /\ WF_vars(ListenS2) /\ WF_vars(Driver)

\* ---------------------------------------------------------------- exceptions
\* Lines 134-139 when an exception leaves the loop body: _llm_task is cancelled
\* and awaited if it is not done, then the exception leaves _listen_loop.
ListenFinallyRaise(kind) ==
    IF llm_task # 0 /\ llm[llm_task].pc # "done"
    THEN /\ llm' = [llm EXCEPT ![llm_task].cancel = TRUE]
         /\ lpc' = IF kind = "send" THEN "await_llm_send" ELSE "await_llm_KeyError"
    ELSE /\ llm' = llm
         /\ lpc' = IF kind = "send" THEN "raised_send" ELSE "raised_KeyError"

\* Lines 122 and 150: send_json raises in the listen loop.
ListenSendFails ==
    /\ lpc \in {"sent_partial", "sent_final"}
    /\ ListenFinallyRaise("send")
    /\ UNCHANGED <<state, speak_q, unfinished, stop_speaking, llm_task,
                   pending_prompts, stt_first_partial_emitted, active_prompt,
                   last_prompt_text, awaiting_new_turn, tracer, lcur, nframes,
                   npartials, speakv, driverv, histv>>

\* Lines 110-111: stream_partials() yields a partial that has no "text" key;
\* _emit_partial sends it with partial.get("text", "").
ListenPartialMalformed ==
    /\ npartials < MaxPartials
    /\ Len(llm) < MaxTasks
    /\ ListenPartialOf({ [text |-> Missing, msb |-> b] : b \in BOOLEAN })

\* Line 113: partial["text"] of a sentence-boundary partial with no "text" key
\* raises KeyError.
ListenKeyError ==
    /\ lpc = "sent_partial"
    /\ lcur.msb
    /\ lcur.text = Missing
    /\ ListenFinallyRaise("KeyError")
    /\ UNCHANGED <<state, speak_q, unfinished, stop_speaking, llm_task,
                   pending_prompts, stt_first_partial_emitted, active_prompt,
                   last_prompt_text, awaiting_new_turn, tracer, lcur, nframes,
                   npartials, speakv, driverv, histv>>

\* Lines 138-139: the cancelled task is done; the exception leaves _listen_loop.
ListenAwaitedRaise ==
    /\ lpc \in {"await_llm_send", "await_llm_KeyError"}
    /\ \E i \in 1..Len(llm) : llm[i].cancel /\ llm[i].pc = "done"
    /\ lpc' = IF lpc = "await_llm_send" THEN "raised_send" ELSE "raised_KeyError"
    /\ UNCHANGED <<orch, lcur, nframes, npartials, speakv, driverv, histv>>

\* Line 193: send_json raises in run(); lines 195-205 run and the task ends with
\* the exception, which nobody retrieves.
LLMSendFails(i) ==
    /\ ~Returned
    /\ llm[i].pc = "sent_text"
    /\ ~llm[i].cancel
    /\ LLMFinally([llm EXCEPT ![i].pc = "done", ![i].exc = "send"])
    /\ UNCHANGED <<speak_q, unfinished, stt_first_partial_emitted, tracer, listenv,
                   speakv, driverv, tts_stop_called, bargeIns, drained,
                   drainedItems, turn, midAtExhaust, stt_events,
                   interrupted, auxv>>

\* Line 186: generate_stream raises; lines 195-205 run and the task ends with
\* the exception.
LLMStreamFails(i) ==
    /\ ~Returned
    /\ llm[i].pc = "gen"
    /\ ~llm[i].cancel
    /\ LLMFinally([llm EXCEPT ![i].pc = "done", ![i].exc = "llm"])
    /\ UNCHANGED <<speak_q, unfinished, stt_first_partial_emitted, tracer, listenv,
                   speakv, driverv, tts_stop_called, bargeIns, drained,
                   drainedItems, turn, midAtExhaust, stt_events,
                   interrupted, auxv>>

\* Lines 227-229: send_audio raises; the item is acknowledged and the exception
\* leaves _speak_loop.
SpeakSendFails ==
    /\ spc = "tts"
    /\ naudio >= 1
    /\ TaskDone(1)
    /\ spc' = "raised_send"
    /\ UNCHANGED <<state, speak_q, stop_speaking, llm_task, llm, pending_prompts,
                   stt_first_partial_emitted, active_prompt, last_prompt_text,
                   awaiting_new_turn, tracer, listenv, stext, naudio,
                   first_audio_emitted, dpc, metrics_sent, histv>>

\* Lines 221 and 228-229: tts.stream raises; the item is acknowledged and the
\* exception leaves _speak_loop.
SpeakStreamFails ==
    /\ spc = "tts"
    /\ TaskDone(1)
    /\ spc' = "raised_tts"
    /\ UNCHANGED <<state, speak_q, stop_speaking, llm_task, llm, pending_prompts,
                   stt_first_partial_emitted, active_prompt, last_prompt_text,
                   awaiting_new_turn, tracer, listenv, stext, naudio,
                   first_audio_emitted, dpc, metrics_sent, histv>>

\* Line 76: await listen_task raises the exception of the listen loop, which
\* leaves handle_session.
DriverListenRaised ==
    /\ dpc = "await_listen"
    /\ lpc \in {"raised_send", "raised_KeyError"}
    /\ dpc' = "raised"
    /\ UNCHANGED <<orch, listenv, speakv, join_woken, metrics_sent, histv>>

\* Line 80: await speak_task raises the exception of the speak loop.
DriverSpeakRaised ==
    /\ dpc = "await_speak"
    /\ spc \in {"raised_send", "raised_tts"}
    /\ dpc' = "raised"
    /\ UNCHANGED <<orch, listenv, speakv, join_woken, metrics_sent, histv>>

\* Line 85: send_json raises in handle_session.
DriverMetricsFails ==
    /\ dpc = "send_metrics"
    /\ dpc' = "raised"
    /\ UNCHANGED <<orch, listenv, speakv, join_woken, metrics_sent, histv>>

Fault == ListenSendFails \/ ListenPartialMalformed \/ ListenKeyError
         \/ ListenAwaitedRaise \/ SpeakSendFails \/ SpeakStreamFails
         \/ DriverListenRaised \/ DriverSpeakRaised \/ DriverMetricsFails
         \/ (\E i \in 1..Len(llm) : LLMSendFails(i))
         \/ (\E i \in 1..Len(llm) : LLMStreamFails(i))

\* The session with failing sinks and services and malformed partials.
NextFault == Next \/ Fault

SpecFault == Init /\ [][NextFault]_vars

\* ---------------------------------------------------------------- properties
Tasks == 1..Len(llm)

\* The task was submitted before a barge-in that has since drained the queue.
Stale(i) == llm[i].epoch < drained

\* C1: at every instant at most one LLM generation is live (generate_stream
\* entered and not yet left).
C1_AtMostOneLive == Cardinality(LiveSet) <= 1

\* C2: when handle_session returns the speak loop has exited, the speech queue
\* is empty and no item is unacknowledged.
C2_ReturnDrained ==
    dpc = "done" => spc = "done" /\ speak_q = <<>> /\ unfinished = 0

\* C3: when the source is exhausted while a generation is mid-stream, by the
\* time handle_session returns every such generation has been ended by the
\* cancellation, the speak loop has consumed the sentinel and the metrics event
\* with turn_total_ms has been sent.
C3_ExhaustedMidStream ==
    (dpc = "done" /\ midAtExhaust # {}) =>
        /\ \A i \in midAtExhaust : llm[i].pc = "done"
        /\ spc = "done"
        /\ "turn_total_ms" \in metrics_sent

\* C4: a task submitted after a barge-in was triggered sends assistant_text
\* only after TTS.stop() has been called for that barge-in.
C4_StopBeforeNextText ==
    \A i \in Tasks :
        (llm[i].epoch >= 1 /\ llm[i].k >= 1) => tts_stop_called >= llm[i].epoch

\* C4 witness: a prompt submitted after a barge-in has had a chunk sent.
C4_Witness ==
    \E i \in Tasks : llm[i].epoch >= 1 /\ llm[i].k >= 1 /\ tts_stop_called >= 1

\* C5: once a barge-in has drained the queue, a generation submitted before it
\* sends no assistant_text, puts no chunk on the queue and has no chunk handed
\* to TTS.
C5_NoStaleText ==
    [][\A i \in Tasks : Stale(i) =>
          /\ ~(llm[i].pc = "gen" /\ llm'[i].pc = "sent_text")
          /\ ~(llm[i].pc = "sent_text" /\ llm'[i].pc = "gen")
          /\ ~(spc = "get" /\ spc' = "tts" /\ stext'[1] = i)]_vars

\* C6: when the barge-in controller finishes, the pending buffer is empty,
\* active_prompt and last_prompt_text are None, awaiting_new_turn is false, the
\* queue is empty and the only unacknowledged item left is the one the speak
\* loop is speaking.
C6_BargeInClears ==
    [][drained' = drained + 1 =>
          /\ pending_prompts' = <<>>
          /\ active_prompt' = None
          /\ last_prompt_text' = None
          /\ awaiting_new_turn' = FALSE
          /\ speak_q' = <<>>
          /\ unfinished' = IF spc = "tts" THEN 1 ELSE 0]_vars

\* C6 witness: a barge-in has finished after draining queued chunks.
C6_Witness == drained >= 1 /\ drainedItems >= 1 /\ speak_q = <<>>

\* C7: in a session with a barge-in, the state is LISTENING when
\* handle_session returns.
C7_ListeningAtReturn ==
    (dpc = "done" /\ bargeIns >= 1) => state = "LISTENING"

\* C8: when a generation completes while the pending buffer holds P, a new
\* generation for P is started.
C8_PendingStarted ==
    [][\A i \in Tasks :
          (Live(i) /\ llm'[i].pc = "done" /\ pending_prompts # <<>>) =>
              /\ Len(llm') = Len(llm) + 1
              /\ llm'[Len(llm')].prompt = Head(pending_prompts)]_vars

\* C9: within one turn, a text submitted by a sentence-boundary partial and
\* then by the endpoint final is generated for once.
C9_OneGeneration ==
    \A i, j \in Tasks :
        (/\ i < j
         /\ llm[i].via = "partial" /\ llm[j].via = "final"
         /\ llm[i].turn = llm[j].turn /\ llm[i].epoch = llm[j].epoch
         /\ llm[i].prompt = llm[j].prompt)
        => ~(llm[i].entered /\ llm[j].entered)

StrictPrefix(p, a) == StartsWith(a, p) /\ p # a

A_ == ScriptS4[1]
AB_ == ScriptS4[2]
ABC_ == ScriptS4[3]

\* The generation for A is active and blocked: run() has set active_prompt to A
\* and a generation for A is inside generate_stream.
ActiveOnA == active_prompt = A_ /\ \E i \in Tasks : Live(i) /\ llm[i].prompt = A_

\* C11: when the sentence-boundary partials A, A B, A B C are submitted in that
\* order while the generation for A is active and blocked, only the generation
\* for A runs, A B is never submitted to the LLM and the pending buffer ends
\* holding exactly A B C.
C11_CoalesceToLatest ==
    [][(/\ lpc = "sent_partial" /\ lpc' = "partials"
        /\ lcur.text = ABC_
        /\ lastCall.text = AB_ /\ lastCall.active = A_ /\ lastCall.state = "THINKING"
        /\ ActiveOnA /\ state = "THINKING")
       => /\ \A i \in 1..Len(llm') : llm'[i].prompt = A_
          /\ Cardinality({ i \in 1..Len(llm') : llm'[i].entered }) = 1
          /\ pending_prompts' = <<ABC_>>]_vars

\* C11 as amended: in that scenario only the generation for A runs, neither
\* A B nor A B C is submitted to the LLM or deferred, and the pending buffer
\* ends empty.
C11_ExtensionsDropped ==
    [][(/\ lpc = "sent_partial" /\ lpc' = "partials"
        /\ lcur.text = ABC_
        /\ lastCall.text = AB_ /\ lastCall.active = A_ /\ lastCall.state = "THINKING"
        /\ ActiveOnA /\ state = "THINKING")
       => /\ \A i \in 1..Len(llm') : llm'[i].prompt = A_
          /\ pending_prompts' = <<>>]_vars

\* C11 witness: A B and then A B C were submitted while the generation for A
\* was active; A is the only generation.
C11_Witness ==
    /\ lastCall.text = ABC_ /\ lastCall.active = A_ /\ lastCall.outcome = "prefix"
    /\ npartials = 3 /\ Len(llm) = 1 /\ ActiveOnA

\* ---------------------------------------------------------------- C12
\* The stt events of turn t that the client has received.
EventsOfTurn(t) == { n \in 1..Len(stt_events) : stt_events[n].turn = t }

FinalSent(t) == \E n \in EventsOfTurn(t) : stt_events[n].type = "stt_final"

\* The client has received assistant_text of generation i.
TextSent(i) == llm[i].k >= 1

PartialSent(t) == \E n \in EventsOfTurn(t) : stt_events[n].type = "stt_partial"

\* C13: no assistant_text is sent before the first stt_partial of the turn that
\* submitted its prompt, whether a partial or the endpoint final submitted it:
\* when the first stt_partial of a turn is sent, no generation of that turn has
\* sent assistant_text.
C13_NoTextBeforeFirstPartial ==
    [][(/\ Len(stt_events') = Len(stt_events) + 1
        /\ stt_events'[Len(stt_events')].type = "stt_partial"
        /\ ~PartialSent(turn))
       => \A i \in Tasks : llm[i].turn = turn => ~TextSent(i)]_vars

\* C13 witness: a generation launched by an endpoint final has sent
\* assistant_text, in a turn that had an stt_partial.
C13_Witness ==
    \E i \in Tasks :
        TextSent(i) /\ llm[i].via = "final" /\ PartialSent(llm[i].turn)

\* ---------------------------------------------------------------- C14
\* C14: the partials drained for a frame are emitted before the endpoint of
\* that frame is processed: an stt_final of a frame is sent after every
\* stt_partial of that frame and of earlier frames, so each stt_partial sent
\* after an stt_final belongs to a later frame.
C14_PartialsBeforeFinal ==
    \A m, n \in 1..Len(stt_events) :
        (/\ m < n
         /\ stt_events[m].type = "stt_final"
         /\ stt_events[n].type = "stt_partial")
        => stt_events[n].frame > stt_events[m].frame

\* C14 witness: a frame produced a partial and then a final, and a later frame
\* produced a partial.
C14_Witness ==
    \E l, m, n \in 1..Len(stt_events) :
        /\ l < m /\ m < n
        /\ stt_events[l].type = "stt_partial"
        /\ stt_events[m].type = "stt_final"
        /\ stt_events[l].frame = stt_events[m].frame
        /\ stt_events[n].type = "stt_partial"

\* ---------------------------------------------------------------- C15
\* The first chunk of generation i waits on the speech queue, in front of the
\* sentinel, for the running speak loop.
FirstChunkQueued(i) ==
    /\ spc # "done"
    /\ \E n \in 1..Len(speak_q) :
          /\ speak_q[n] = <<i, 1>>
          /\ \A m \in 1..n : speak_q[m] # Sentinel

\* tts.stream has been invoked with the first chunk of generation i.
FirstChunkSpoken(i) == spc = "tts" /\ stext = <<i, 1>>

\* C15: the speak loop synthesises the first chunk of a generation without
\* waiting for more LLM output: once the chunk is queued, tts.stream is invoked
\* with it even if the LLM never yields again.
C15_FirstChunkSpoken ==
    \A i \in 1..MaxTasks : FirstChunkQueued(i) ~> FirstChunkSpoken(i)

\* C15 witness: tts.stream was invoked with the first chunk while the
\* generation is still inside generate_stream with no second chunk yielded.
C15_Witness ==
    \E i \in Tasks :
        FirstChunkSpoken(i) /\ llm[i].pc = "gen" /\ llm[i].k = 1 /\ llm[i].k < ChunksS2

\* ---------------------------------------------------------------- C16
AllMetrics == { "stt_first_partial_ms", "stt_final_ms", "llm_first_token_ms",
                "tts_first_audio_ms", "turn_total_ms" }

\* The value the metrics event carried under key k: marks added after the
\* event do not change the first mark of a name.
Reported(k) == MetricValue(tracer, k)

\* C16 as stated: when all five metrics are reported,
\* stt_first_partial_ms <= stt_final_ms <= llm_first_token_ms
\* <= tts_first_audio_ms <= turn_total_ms.
C16_MetricsOrdered ==
    metrics_sent = AllMetrics =>
        /\ Reported("stt_first_partial_ms") <= Reported("stt_final_ms")
        /\ Reported("stt_final_ms") <= Reported("llm_first_token_ms")
        /\ Reported("llm_first_token_ms") <= Reported("tts_first_audio_ms")
        /\ Reported("tts_first_audio_ms") <= Reported("turn_total_ms")

Min(a, b) == IF a <= b THEN a ELSE b

\* C16 as amended: when all five metrics are reported, the earlier of
\* stt_first_partial_ms and stt_final_ms is <= llm_first_token_ms
\* <= tts_first_audio_ms <= turn_total_ms, and stt_first_partial_ms and
\* stt_final_ms are <= turn_total_ms.
C16_MetricsPartlyOrdered ==
    metrics_sent = AllMetrics =>
        /\ Min(Reported("stt_first_partial_ms"), Reported("stt_final_ms"))
               <= Reported("llm_first_token_ms")
        /\ Reported("llm_first_token_ms") <= Reported("tts_first_audio_ms")
        /\ Reported("tts_first_audio_ms") <= Reported("turn_total_ms")
        /\ Reported("stt_first_partial_ms") <= Reported("turn_total_ms")
        /\ Reported("stt_final_ms") <= Reported("turn_total_ms")

\* C16 witness: all five metrics were reported, with the first token and the
\* first audio before stt_final.
C16_Witness ==
    /\ metrics_sent = AllMetrics
    /\ Reported("tts_first_audio_ms") < Reported("stt_final_ms")

\* ---------------------------------------------------------------- C17
\* C17: every value of a metrics event is >= 0: each mark used for a metric is
\* recorded no earlier than turn_start.
C17_MetricsNonNegative == \A k \in metrics_sent : Reported(k) >= 0

\* C17 witness: a metrics event with all five values was sent.
C17_Witness == dpc = "done" /\ metrics_sent = AllMetrics


\* ---------------------------------------------------------------- failures
\* send_json or send_audio has raised in the listen loop, in a generation, in
\* the speak loop or (line 85) in handle_session itself.
SendFailed ==
    \/ lpc \in {"raised_send", "await_llm_send"}
    \/ \E i \in 1..Len(llm) : llm[i].exc = "send"
    \/ spc = "raised_send"
    \/ dpc = "raised" /\ lpc = "done" /\ spc = "done"

\* tts.stream or llm.generate_stream has raised.
ServiceFailed ==
    \/ spc = "raised_tts"
    \/ \E i \in 1..Len(llm) : llm[i].exc = "llm"

\* The listen loop has raised KeyError, or is raising it.
KeyErrorRaised == lpc \in {"raised_KeyError", "await_llm_KeyError"}

\* The listen loop, the speak loop and every generation have ended.
ActivitiesTerminated ==
    /\ lpc \in {"done", "raised_send", "raised_KeyError"}
    /\ spc \in {"done", "raised_send", "raised_tts"}
    /\ \A i \in 1..Len(llm) : llm[i].pc = "done"

\* handle_session waits in join() (line 78) for acknowledgements that no
\* activity can give any more: the listen loop is over and the speak loop has
\* ended with an exception.
BlockedForever ==
    /\ dpc = "join_wait"
    /\ ~join_woken
    /\ unfinished > 0
    /\ spc \in {"raised_send", "raised_tts"}

\* C18: once send_json or send_audio has raised in any activity, handle_session
\* never returns normally and never blocks forever in join(), and when it raises
\* to its caller the listen loop, the speak loop and every generation have ended.
C18_SendFailureTearsDown ==
    SendFailed =>
        /\ dpc # "done"
        /\ ~BlockedForever
        /\ dpc = "raised" => ActivitiesTerminated

\* C19: when tts.stream or generate_stream has raised, and no send has failed
\* and no partial was malformed, handle_session does not raise and does not
\* block forever in join(), and once it has returned the state is LISTENING.
C19_ServiceFailureEndsTurn ==
    (ServiceFailed /\ ~SendFailed /\ ~KeyErrorRaised) =>
        /\ dpc # "raised"
        /\ ~BlockedForever
        /\ dpc = "done" => state = "LISTENING"

\* C20: a partial without text, sentence boundary or not, that was emitted as a
\* stt_partial event raises no error in the listen loop.
C20_MalformedPartialNoError ==
    (lcur.text = Missing /\ Len(stt_events) >= 1) => ~KeyErrorRaised

\* ---------------------------------------------------------------- C21
\* The assistant is still speaking: the speech queue holds a text item or the
\* speak loop is inside tts.stream.
StillSpeaking == spc = "tts" \/ \E n \in 1..Len(speak_q) : speak_q[n] # Sentinel

\* Line 98 with user_is_speaking true: the listen loop takes a voice frame.
VoiceFrameStep ==
    /\ lpc = "next_frame"
    /\ nframes' = nframes + 1
    /\ lpc' \in {"partials", "int_stop"}

\* C21: whenever a voice frame is processed while the assistant is still
\* speaking, barge-in is invoked (the stop signal is set and TTS.stop() is
\* called), also when the generation that produced the text has completed.
C21_VoiceWhileSpeakingInterrupts ==
    [][(VoiceFrameStep /\ StillSpeaking) =>
          /\ bargeIns' = bargeIns + 1
          /\ stop_speaking'
          /\ tts_stop_called' = tts_stop_called + 1]_vars

\* ---------------------------------------------------------------- C22
\* Task i was submitted by the listen loop after the latest barge-in: a stop
\* signal that is set now was set before the task existed.
AfterBargeIn(i) ==
    /\ llm[i].epoch >= 1
    /\ llm[i].epoch = bargeIns
    /\ llm[i].via # "pending"

\* Lines 187-188: the generation of task i leaves its loop at the break.
CutShortStep(i) == ~llm[i].stopped /\ llm'[i].stopped

\* Lines 222-223: the speak loop breaks off an utterance of task i.
DiscardStep(i) ==
    /\ spc = "tts" /\ stext[1] = i
    /\ spc' = "get" /\ naudio' = naudio + 1

\* C22: a generation submitted after a barge-in is never cut short by the stop
\* signal of that barge-in, and the speak loop never discards its audio because
\* of it.
C22_StaleStopIgnored ==
    [][\A i \in Tasks : AfterBargeIn(i) => ~CutShortStep(i) /\ ~DiscardStep(i)]_vars

\* ---------------------------------------------------------------- C23
\* Line 193 or 194: a generation sends an assistant_text event or puts a chunk
\* on the speech queue.
EmitStep ==
    \E i \in Tasks :
        \/ llm[i].pc = "gen" /\ llm'[i].pc = "sent_text"
        \/ llm[i].pc = "sent_text" /\ llm'[i].pc = "gen"

\* C23: once the listen loop has exited on source exhaustion no generation is
\* live, none begins, no assistant_text is sent and no chunk is put on the
\* speech queue.
C23_QuietAfterListenExit ==
    [][lpc = "done" =>
          /\ LiveSet = {}
          /\ LiveSet' = {}
          /\ ~EmitStep]_vars

\* ---------------------------------------------------------------- C24
\* No generation is live and none is scheduled: every task created has ended.
NoGeneration == \A i \in Tasks : llm[i].pc = "done"

\* C24: whenever no generation is live and none is scheduled, the state is
\* neither THINKING nor SPEAKING.
C24_NotStuckBusy == NoGeneration => state \notin {"THINKING", "SPEAKING"}

\* ---------------------------------------------------------------- C25
\* The fields the completion path of run() leaves behind when nothing is pending.
ResetAfter ==
    /\ active_prompt' = None
    /\ ~stop_speaking'
    /\ state' = "LISTENING"
    /\ awaiting_new_turn'

AudioSendStep == spc = "tts" /\ spc' = "tts" /\ naudio' = naudio + 1

\* C26: once a barge-in has set the stop signal while the speak loop was
\* streaming an utterance, no further audio frame of that utterance is sent,
\* whether or not a generation clears the signal before the speak loop looks.
C26_InterruptedUtteranceSilent ==
    [][AudioSendStep => stext # interrupted]_vars

\* ---------------------------------------------------------------- C27
\* Line 193: a generation hands an assistant_text event to send_json.
TextSendStep == \E i \in Tasks : llm[i].pc = "gen" /\ llm'[i].pc = "sent_text"

\* C27: at the instant an assistant_text send or an audio send is initiated the
\* stop signal is not set (it is tested just before, with no suspension point
\* in between).
C27_NoSendWhileStopped ==
    [][(TextSendStep \/ AudioSendStep) => ~stop_speaking]_vars

\* C27 witness: after a barge-in, with the stop signal cleared, a generation
\* submitted after it has sent text and the speak loop has sent audio.
C27_Witness ==
    /\ bargeIns >= 1
    /\ ~stop_speaking
    /\ \E i \in Tasks : llm[i].epoch >= 1 /\ llm[i].k >= 1
    /\ spc = "tts" /\ naudio >= 1 /\ llm[stext[1]].epoch >= 1

\* ---------------------------------------------------------------- C28
\* A step that calls _maybe_start_llm: line 113 (a sentence-boundary partial),
\* line 129 (the final) or line 201 (the pending prompt, from run()'s finally).
CallStep ==
    \/ lpc = "sent_partial" /\ lcur.msb /\ lpc' = "partials"
    \/ lpc = "sent_final" /\ lpc' = "next_frame"
    \/ \E i \in Tasks : Live(i) /\ llm'[i].pc = "done" /\ pending_prompts # <<>>

\* The call of that step deferred its prompt (lines 172-177).
Deferral == CallStep /\ lastCall'.outcome = "queued"

\* C28: the pending buffer never holds more than one prompt, and right after a
\* deferral it holds exactly the prompt just deferred.
C28_PendingHoldsLatest ==
    [][/\ Len(pending_prompts') <= 1
       /\ Deferral => pending_prompts' = <<Strip(lastCall'.text)>>]_vars

\* C28 witness: the last call, made in the second turn while the state was
\* THINKING or SPEAKING, deferred its prompt and the buffer holds exactly it.
C28_Witness ==
    /\ lastCall.outcome = "queued"
    /\ lastCall.state \in {"THINKING", "SPEAKING"}
    /\ pending_prompts = <<Strip(lastCall.text)>>
    /\ pending_turn >= 1

\* ---------------------------------------------------------------- C29
\* Line 113: _maybe_start_llm is called with a partial whose trimmed text begins
\* with the active prompt; nothing follows the call in that step.
PrefixCallStep ==
    /\ lpc = "sent_partial" /\ lcur.msb /\ lpc' = "partials"
    /\ active_prompt # None
    /\ StartsWith(Strip(lcur.text), active_prompt)

\* Lines 129-133: the same call with the final text; line 133, after the call,
\* sets awaiting_new_turn.
PrefixFinalStep ==
    /\ lpc = "sent_final" /\ lpc' = "next_frame"
    /\ active_prompt # None
    /\ StartsWith(Strip(lcur.text), active_prompt)

\* C29: while active_prompt is P, a call of _maybe_start_llm with a text whose
\* trimmed form begins with P starts no generation and leaves the pending
\* buffer, the state, last_prompt_text and awaiting_new_turn unchanged.
C29_PrefixCallChangesNothing ==
    [][/\ PrefixCallStep =>
             /\ lastCall'.outcome = "prefix"
             /\ UNCHANGED <<llm, llm_task, pending_prompts, state,
                            last_prompt_text, awaiting_new_turn, active_prompt>>
       /\ PrefixFinalStep =>
             /\ lastCall'.outcome = "prefix"
             /\ UNCHANGED <<llm, llm_task, pending_prompts, state,
                            last_prompt_text, active_prompt>>]_vars

\* C29 witness: such a call was made with a prompt deferred earlier still in
\* the buffer, in state THINKING or SPEAKING.
C29_Witness ==
    /\ lastCall.outcome = "prefix"
    /\ lastCall.active # None
    /\ lastCall.state \in {"THINKING", "SPEAKING"}
    /\ lpc = "partials"
    /\ pending_prompts # <<>>

\* ---------------------------------------------------------------- C30
\* Items taken off the speech queue and not yet acknowledged: the one the speak
\* loop holds inside tts.stream.
InHand == IF spc = "tts" THEN 1 ELSE 0

\* C30: every item removed from the speech queue (by the speak loop, whether
\* its TTS stream finished, was broken off or raised, or the sentinel, or by
\* the barge-in drain) is acknowledged exactly once: the unacknowledged count
\* is the number of items still queued plus the one being spoken, so it never
\* goes below zero and is zero once every item has been removed and handled.
C30_AckedExactlyOnce ==
    /\ unfinished = Len(speak_q) + InHand
    /\ unfinished >= 0

\* C30 witness: a barge-in drained a queued item, later a tts.stream raised,
\* and nothing is left unacknowledged.
C30_Witness ==
    /\ drainedItems >= 1
    /\ spc = "raised_tts"
    /\ speak_q = <<>>
    /\ unfinished = 0

\* ---------------------------------------------------------------- C31
\* The assistant_text event of chunk k of task i has been handed to send_json
\* (llm[i].k counts the events of task i).
TextEventSent(item) == llm[item[1]].k >= item[2]

\* C31: every chunk on the speech queue, and the chunk handed to tts.stream
\* (whose audio frames are being sent), had its assistant_text event sent
\* before it was put on the queue.
C31_TextBeforeSpeech ==
    /\ \A n \in 1..Len(speak_q) :
          speak_q[n] # Sentinel => TextEventSent(speak_q[n])
    /\ spc = "tts" => TextEventSent(stext)

\* C31 witness: an audio frame synthesised from a chunk has been sent, after
\* the assistant_text event of that chunk.
C31_Witness ==
    /\ spc = "tts" /\ naudio >= 1
    /\ stext # Sentinel
    /\ TextEventSent(stext)

\* ---------------------------------------------------------------- C32
\* Lines 99-109 on a voice frame that found the session outside SPEAKING: the
\* step from the frame's arrival to the suspension in stt.feed.
PlainVoiceStep == lpc = "next_frame" /\ lpc' = "partials"

\* Lines 235-248 and 102-109 on a voice frame that found the session SPEAKING:
\* the step from the return of tts.stop() to the suspension in stt.feed.
BargeInVoiceStep == lpc = "int_stop" /\ lpc' = "partials"

\* Lines 170-171 after the step: the text t would be suppressed as a duplicate.
SuppressedNext(t) ==
    MaybeStartLLM(t, "partial", state', active_prompt', last_prompt_text',
                  awaiting_new_turn', pending_prompts', llm').outcome = "duplicate"

\* C32 as stated: on every voice frame, last_prompt_text is cleared and
\* awaiting_new_turn becomes false when awaiting_new_turn was true, and
\* last_prompt_text is left unchanged when awaiting_new_turn was false.
C32_VoiceFrameKeepsLastPrompt ==
    [][(PlainVoiceStep \/ BargeInVoiceStep) =>
          IF awaiting_new_turn
          THEN last_prompt_text' = None /\ ~awaiting_new_turn'
          ELSE last_prompt_text' = last_prompt_text]_vars

\* C32 amended: on a voice frame that triggers no barge-in, last_prompt_text is
\* cleared and awaiting_new_turn becomes false when awaiting_new_turn was true,
\* after which no text is suppressed as a duplicate, and last_prompt_text is
\* left unchanged when awaiting_new_turn was false; on a voice frame that
\* triggers a barge-in, last_prompt_text is cleared and awaiting_new_turn is
\* false whatever awaiting_new_turn was.
C32_NewTurnForgetsLastPrompt ==
    [][/\ PlainVoiceStep =>
            IF awaiting_new_turn
            THEN /\ last_prompt_text' = None
                 /\ ~awaiting_new_turn'
                 /\ \A t \in Texts : ~SuppressedNext(t)
            ELSE /\ last_prompt_text' = last_prompt_text
                 /\ ~awaiting_new_turn'
       /\ BargeInVoiceStep => last_prompt_text' = None /\ ~awaiting_new_turn']_vars

\* C32 witness: with no barge-in in the session, a generation has recorded its
\* prompt as the last one and a later voice frame has cleared it.
C32_Witness ==
    /\ lpc = "partials"
    /\ bargeIns = 0
    /\ \E i \in Tasks : llm[i].entered
    /\ last_prompt_text = None
    /\ ~awaiting_new_turn

\* ---------------------------------------------------------------- C33
\* Lines 122-128: the stt_final events sent so far.
FinalsSent == Cardinality({ n \in 1..Len(stt_events) : stt_events[n].type = "stt_final" })

\* Lines 118-119: vad.endpointed() returned true and get_final() is awaited.
EndpointStep == lpc # "get_final" /\ lpc' = "get_final"

\* Lines 119-128: get_final() returns and the stt_final event is handed to
\* send_json.
GetFinalStep == lpc = "get_final" /\ lpc' # "get_final"

\* Lines 129-133: send_json returns and the frame step runs to its end.
AfterFinalStep == lpc = "sent_final" /\ lpc' # "sent_final"

\* C33: an endpoint is read after the frame was fed and its partials drained;
\* from there the listen loop awaits get_final(), sends one stt_final event with
\* the text it returned, then calls _maybe_start_llm once with that text, resets
\* the VAD (the turn count) once and ends the frame step with awaiting_new_turn
\* true; so the stt_final events sent are one per reset, plus the one of the
\* endpoint in progress.
C33_EndpointSequence ==
    /\ [](FinalsSent = turn + (IF lpc = "sent_final" THEN 1 ELSE 0))
    /\ [][/\ EndpointStep => lpc \in {"partials", "feed_silence"} /\ UNCHANGED <<orch, histv>>
          /\ GetFinalStep =>
                /\ lpc' = "sent_final"
                /\ lcur'.text \in Texts
                /\ stt_events' = Append(stt_events, SttEvent("stt_final"))
                /\ UNCHANGED <<turn, lastCall, awaiting_new_turn, llm>>
          /\ AfterFinalStep =>
                /\ lpc' = "next_frame"
                /\ lastCall' = [text |-> lcur.text, active |-> active_prompt,
                                last |-> last_prompt_text,
                                awaiting |-> awaiting_new_turn, state |-> state,
                                outcome |-> lastCall'.outcome]
                /\ llm' = MaybeStartLLM(lcur.text, "final", state, active_prompt,
                                        last_prompt_text, awaiting_new_turn,
                                        pending_prompts, llm).llm
                /\ turn' = turn + 1
                /\ awaiting_new_turn'
                /\ stt_events' = stt_events]_vars

\* C33 witness: an endpoint was processed to its end: the stt_final event is the
\* last one sent, the final text started a generation, the VAD was reset and a
\* new turn is awaited.
C33_Witness ==
    /\ lpc = "next_frame"
    /\ turn >= 1
    /\ awaiting_new_turn
    /\ Len(stt_events) >= 1
    /\ stt_events[Len(stt_events)] =
          [type |-> "stt_final", frame |-> nframes, turn |-> turn - 1]
    /\ lastCall.outcome = "started"
    /\ Len(llm) >= 1 /\ llm[Len(llm)].via = "final"

\* ---------------------------------------------------------------- C34
\* Line 97: the frames taken from the source whose handling has reached the
\* feed: all of them, but the one waiting in tts.stop() for a barge-in.
FramesHandled == nframes - (IF lpc = "int_stop" THEN 1 ELSE 0)

\* C34: every inbound frame is handed to STT.feed exactly once, in arrival
\* order, be it voice or silence and with or without a barge-in: the frames fed
\* are the frames 1, 2, ... taken from the source so far (the frame of a
\* barge-in is fed when tts.stop() has returned).
C34_EveryFrameFedOnce ==
    stt_fed = [n \in 1..FramesHandled |-> n]

\* C34 witness: two frames were fed, the second one a voice frame that
\* triggered a barge-in and was fed after the interruption.
C34_Witness ==
    /\ stt_fed = <<1, 2>>
    /\ drained = 1
    /\ lpc = "partials"

\* ---------------------------------------------------------------- C35
\* C35: whenever another activity can run, the state is LISTENING, THINKING or
\* SPEAKING: IDLE is never entered, and the INTERRUPTED of a barge-in frame has
\* been replaced by LISTENING before the frame step is suspended.
C35_StateSeenByOthers ==
    /\ [](state \in {"LISTENING", "THINKING", "SPEAKING"})
    /\ [][BargeInVoiceStep => state' = "LISTENING"]_vars

\* C35 witness: a barge-in has finished and its frame waits in stt.feed, with
\* the state LISTENING.
C35_Witness ==
    /\ drained >= 1
    /\ lpc = "partials"
    /\ npartials = 0
    /\ stt_fed = [n \in 1..nframes |-> n]
    /\ state = "LISTENING"

\* ---------------------------------------------------------------- C36
\* Lines 85-91 of the tracer: the mark each key is computed from.
SourceMark ==
    [k \in {"stt_first_partial_ms", "stt_final_ms", "llm_first_token_ms",
            "tts_first_audio_ms", "turn_total_ms"} |->
        CASE k = "stt_first_partial_ms" -> "stt_first_partial"
          [] k = "stt_final_ms" -> "stt_final"
          [] k = "llm_first_token_ms" -> "llm_first_token"
          [] k = "tts_first_audio_ms" -> "tts_first_audio"
          [] k = "turn_total_ms" -> "turn_end"]

\* Lines 67-71 of the tracer: the places of the marks of that name.
MarksOf(tr, name) == { n \in 1..Len(tr) : tr[n] = name }

\* The first of a non-empty set of places.
First(S) == CHOOSE n \in S : \A m \in S : n <= m

\* The traces of at most two marks, with and without turn_start.
MarkNames == {"turn_start", "stt_first_partial", "stt_final", "llm_first_token",
              "tts_first_audio", "turn_end"}
SmallTraces == {<<>>} \cup { <<a>> : a \in MarkNames }
                     \cup { <<a, b>> : a \in MarkNames, b \in MarkNames }

\* Tracer.metrics on the trace tr: a key is reported exactly when turn_start
\* and its source mark occur in tr, with the distance between the first
\* occurrences of the two.
ReportsRightly(tr) ==
    /\ \A k \in DOMAIN SourceMark :
          k \in MetricKeys(tr) <=>
              (MarksOf(tr, "turn_start") # {} /\ MarksOf(tr, SourceMark[k]) # {})
    /\ \A k \in MetricKeys(tr) :
          MetricValue(tr, k) =
              First(MarksOf(tr, SourceMark[k])) - First(MarksOf(tr, "turn_start"))

\* Lines 82-85: speak_task is done and handle_session goes on to the metrics.
MetricsStep == dpc = "await_speak" /\ dpc' # "await_speak"

\* C36: metrics() reports a key exactly when turn_start and the key's source
\* mark were recorded, with the difference of the first marks of those names
\* (for the trace of the session and for every trace of at most two marks);
\* the metrics event of handle_session carries those keys, turn_total_ms among
\* them, and has been sent whenever handle_session has returned normally.
C36_MetricsReported ==
    /\ [](dpc = "done" => "turn_total_ms" \in metrics_sent)
    /\ [][MetricsStep =>
            /\ ReportsRightly(tracer')
            /\ \A tr \in SmallTraces : ReportsRightly(tr)
            /\ tracer' = Append(tracer, "turn_end")
            /\ metrics_sent' = MetricKeys(tracer')
            /\ "turn_total_ms" \in metrics_sent'
            /\ dpc' = "send_metrics"]_vars

\* C36 witness: handle_session has returned after a session in which
\* llm_first_token was marked twice and stt_final never; the event sent has
\* llm_first_token_ms and turn_total_ms and no stt_final_ms.
C36_Witness ==
    /\ dpc = "done"
    /\ Cardinality(MarksOf(tracer, "llm_first_token")) = 2
    /\ MarksOf(tracer, "stt_final") = {}
    /\ {"llm_first_token_ms", "turn_total_ms"} \subseteq metrics_sent
    /\ "stt_final_ms" \notin metrics_sent

\* ---------------------------------------------------------------- EnergyVAD
\* Everything of the session; the methods of the EnergyVAD leave it alone.
sessionv == <<orch, listenv, speakv, driverv, tts_stop_called, bargeIns, drained,
             drainedItems, turn, lastCall, midAtExhaust, stt_events, pending_turn,
             interrupted, stt_fed>>

\* The frames a client passes to is_voice: b"" (line 30), a frame whose rms is
\* above voice_threshold (line 34), and any other frame.
FrameKinds == {"empty", "voice", "silence"}

\* vad.py lines 29-41, is_voice(pcm_bytes): an empty frame changes nothing; a
\* voice frame clears the silence run and the endpoint flag; any other frame
\* lengthens the silence run and raises the flag when the run has reached
\* silence_frames.
VadIsVoice(kind) ==
    /\ Len(vad_log) < MaxVadCalls
    /\ CASE kind = "empty" ->
              UNCHANGED <<vad_silence_run, vad_endpoint>>
         [] kind = "voice" ->
              vad_silence_run' = 0 /\ vad_endpoint' = FALSE
         [] kind = "silence" ->
              /\ vad_silence_run' = vad_silence_run + 1
              /\ vad_endpoint' = (vad_endpoint \/ vad_silence_run + 1 >= VadSilenceFrames)
    /\ vad_log' = Append(vad_log, [call |-> "is_voice", frame |-> kind,
                                   ret |-> (kind = "voice")])
    /\ UNCHANGED sessionv

\* vad.py lines 43-47, endpointed(): returns the flag and lowers it.
VadEndpointed ==
    /\ Len(vad_log) < MaxVadCalls
    /\ vad_endpoint' = FALSE
    /\ vad_log' = Append(vad_log, [call |-> "endpointed", frame |-> "none",
                                   ret |-> vad_endpoint])
    /\ UNCHANGED <<vad_silence_run, sessionv>>

\* vad.py lines 49-52, reset(): the silence run and the flag are cleared.
VadReset ==
    /\ Len(vad_log) < MaxVadCalls
    /\ vad_silence_run' = 0
    /\ vad_endpoint' = FALSE
    /\ vad_log' = Append(vad_log, [call |-> "reset", frame |-> "none",
                                   ret |-> FALSE])
    /\ UNCHANGED sessionv

VadFrame == \E kind \in FrameKinds : VadIsVoice(kind)

\* An EnergyVAD (vad.py lines 14-27) and the calls of a client, in any order.
NextVAD == VadFrame \/ VadEndpointed \/ VadReset
SpecVAD == Init /\ [][NextVAD]_vars

\* The n-th call was is_voice on a voice frame, on a silent frame; it was a
\* reset; it was endpointed() returning true.
VoiceAt(n) == vad_log[n].call = "is_voice" /\ vad_log[n].frame = "voice"
SilenceAt(n) == vad_log[n].call = "is_voice" /\ vad_log[n].frame = "silence"
ResetAt(n) == vad_log[n].call = "reset"
EndpointAt(n) == vad_log[n].call = "endpointed" /\ vad_log[n].ret

\* ---------------------------------------------------------------- C37
\* Calls a..b hold a new endpoint: a voice frame and, after it, the configured
\* number of silent frames.
NewEndpointIn(a, b) ==
    \E m \in a..b :
        /\ VoiceAt(m)
        /\ Cardinality({ j \in (m + 1)..b : SilenceAt(j) }) >= VadSilenceFrames

\* C37: endpointed() is consume-on-read: when it has returned true, a call right
\* after it returns false, and it returns true again only after a new endpoint,
\* speech followed by the configured run of silent frames.
C37_ConsumeOnRead ==
    /\ \A n \in 1..(Len(vad_log) - 1) :
          (EndpointAt(n) /\ vad_log[n + 1].call = "endpointed") => ~vad_log[n + 1].ret
    /\ \A n, k \in 1..Len(vad_log) :
          (n < k /\ EndpointAt(n) /\ EndpointAt(k)) => NewEndpointIn(n + 1, k - 1)

\* ---------------------------------------------------------------- C38
\* C38: endpointed() returns true only if a frame was classified as voice since
\* the construction or the last reset().
C38_EndpointOnlyAfterSpeech ==
    \A n \in 1..Len(vad_log) :
        EndpointAt(n) =>
            \E m \in 1..(n - 1) :
                VoiceAt(m) /\ \A j \in m..n : ~ResetAt(j)

====
